---- MODULE Spec2Model ----
(***************************************************************************)
(* Model of the command agent of login-monitor-windows                     *)
(* (src/scripts/command_listener.py, class CommandListener): the           *)
(* dispatcher process_command, the handlers of the capability registry,    *)
(* the running_commands slot map with the alarm / findme background        *)
(* threads, and listen() with its two transports.                          *)
(*                                                                         *)
(* Strings the code inspects character by character (command names) are    *)
(* sequences of one-character strings, so that str.lower() is computed.    *)
(* JSON texts are sequences of tokens, so that json.loads is computed.     *)
(***************************************************************************)
EXTENDS Integers, Sequences, FiniteSets, TLC

VARIABLES
    running_commands, \* self.running_commands: dict kind -> bool (line 87)
    threads,          \* the play_alarm / find_loop threads started so far and alive
    dpc,              \* position of the dispatch path inside process_command
    cur,              \* the command record process_command was called with
    cmd_name,         \* local cmd_name of process_command
    cmd_args,         \* local cmd_args of process_command (after normalisation)
    result,           \* local result of process_command
    writes,           \* the completion writes issued for cur, in order
    called,           \* the handler process_command called for cur, "None" if none
    fault,            \* the exception raised inside the handler body for cur, if any
    via,              \* which delivery path called process_command for cur
    config,           \* device_id from the config file, REALTIME_AVAILABLE
    running,          \* self.running
    hb,               \* the heartbeat thread: "off" until it is started
    mpc,              \* position of the main thread inside listen()
    store,            \* the remote commands table: id -> row
    batch,            \* result.data still to be iterated by a sweep or poll cycle
    push_queue,       \* INSERT events the realtime channel has not delivered yet
    channel,          \* the realtime channel: "none", "up" once subscribed, "down"
    log               \* counters of the log lines the claims are about

vars == <<running_commands, threads, dpc, cur, cmd_name,
          cmd_args, result, writes, called, fault, via, config, running, hb, mpc,
          store, batch, push_queue, channel, log>>

taskVars == <<running_commands, threads>>
dispVars == <<dpc, cur, cmd_name, cmd_args, result, writes, called, fault, via>>
listenVars == <<config, running, hb, mpc, store, batch, push_queue, channel, log>>

Nil == [t |-> "nil"]

----------------------------------------------------------------------------
(* Bounds of the model. *)

MaxThreads == 2   \* background threads alive at the same time
DispatchThreads == 1 \* the same, where the records vary and not the tasks
MaxDuration == 2  \* largest duration / count value a delivered record carries
MaxCmdId == 2     \* command identifiers 1..MaxCmdId
MaxFails == 2     \* consecutive failed liveness writes counted, then saturating
MaxRuns == 2      \* deliveries of one command id counted, then saturating
MaxHbCmds == 1    \* commands inserted where the heartbeat thread is interleaved

CmdIds == 1..MaxCmdId

----------------------------------------------------------------------------
(* Command names.  *)

n_status == <<"s","t","a","t","u","s">>
n_screenshot == <<"s","c","r","e","e","n","s","h","o","t">>
n_photo == <<"p","h","o","t","o">>
n_location == <<"l","o","c","a","t","i","o","n">>
n_battery == <<"b","a","t","t","e","r","y">>
n_wifiinfo == <<"w","i","f","i","i","n","f","o">>
n_sysinfo == <<"s","y","s","i","n","f","o">>
n_audio == <<"a","u","d","i","o">>
n_alarm == <<"a","l","a","r","m">>
n_findme == <<"f","i","n","d","m","e">>
n_stopfind == <<"s","t","o","p","f","i","n","d">>
n_stop == <<"s","t","o","p">>
n_listnetworks == <<"l","i","s","t","n","e","t","w","o","r","k","s">>
n_appusage == <<"a","p","p","u","s","a","g","e">>
n_processes == <<"p","r","o","c","e","s","s","e","s">>
n_lockscreen == <<"l","o","c","k","s","c","r","e","e","n">>
n_shutdown == <<"s","h","u","t","d","o","w","n">>
n_restart == <<"r","e","s","t","a","r","t">>

\* self.handlers: the capability registry, name -> bound method.
handlers ==
    (n_status :> "cmd_status") @@ (n_screenshot :> "cmd_screenshot") @@
    (n_photo :> "cmd_photo") @@ (n_location :> "cmd_location") @@
    (n_battery :> "cmd_battery") @@ (n_wifiinfo :> "cmd_wifiinfo") @@
    (n_sysinfo :> "cmd_sysinfo") @@ (n_audio :> "cmd_audio") @@
    (n_alarm :> "cmd_alarm") @@ (n_findme :> "cmd_findme") @@
    (n_stopfind :> "cmd_stopfind") @@ (n_stop :> "cmd_stop") @@
    (n_listnetworks :> "cmd_listnetworks") @@ (n_appusage :> "cmd_appusage") @@
    (n_processes :> "cmd_processes") @@ (n_lockscreen :> "cmd_lockscreen") @@
    (n_shutdown :> "cmd_shutdown") @@ (n_restart :> "cmd_restart")

\* str.lower() on one character: the upper-case letters map to lower case,
\* every other character is kept.
UpperToLower ==
    ("A" :> "a") @@ ("B" :> "b") @@ ("C" :> "c") @@ ("D" :> "d") @@
    ("E" :> "e") @@ ("F" :> "f") @@ ("G" :> "g") @@ ("H" :> "h") @@
    ("I" :> "i") @@ ("J" :> "j") @@ ("K" :> "k") @@ ("L" :> "l") @@
    ("M" :> "m") @@ ("N" :> "n") @@ ("O" :> "o") @@ ("P" :> "p") @@
    ("Q" :> "q") @@ ("R" :> "r") @@ ("S" :> "s") @@ ("T" :> "t") @@
    ("U" :> "u") @@ ("V" :> "v") @@ ("W" :> "w") @@ ("X" :> "x") @@
    ("Y" :> "y") @@ ("Z" :> "z")

LowerCharKept(c) == c
LowerChar(c) == IF c \in DOMAIN UpperToLower THEN UpperToLower[c] ELSE c

\* command['command'].lower()
Lower(name) == [i \in DOMAIN name |-> LowerChar(name[i])]

\* handler = self.handlers.get(cmd_name): the method, or None.
HandlerOf(name) == IF name \in DOMAIN handlers THEN handlers[name] ELSE "None"

----------------------------------------------------------------------------
(* Argument values and json.loads.  A value is a map (key -> integer), a   *)
(* JSON text, null, a list or a number.                                    *)

EmptyMap == [k \in {} |-> 0]
MapVal(m) == [t |-> "map", m |-> m]
StrVal(tokens) == [t |-> "str", s |-> tokens]
NullVal == [t |-> "null"]
ListVal(n) == [t |-> "list", n |-> n]
NumVal(n) == [t |-> "num", n |-> n]
TextVal == [t |-> "text"]
StringLits == {"\"x\""}

Keys == {"duration", "count", "delay"}
IntOf == ("0" :> 0) @@ ("1" :> 1) @@ ("2" :> 2) @@ ("3" :> 3) @@ ("4" :> 4) @@
         ("5" :> 5) @@ ("6" :> 6) @@ ("7" :> 7) @@ ("8" :> 8) @@ ("9" :> 9)

Bad == [ok |-> FALSE]
Good(v) == [ok |-> TRUE, v |-> v]

\* The members of a JSON object: key : number {, key : number}; a later
\* duplicate key wins, as in Python's dict construction.
RECURSIVE ParseMembers(_)
ParseMembers(ts) ==
    IF Len(ts) < 3 THEN Bad
    ELSE IF ~(ts[1] \in Keys /\ ts[2] = ":" /\ ts[3] \in DOMAIN IntOf) THEN Bad
    ELSE IF Len(ts) = 3 THEN Good(ts[1] :> IntOf[ts[3]])
    ELSE IF ts[4] # "," THEN Bad
    ELSE LET rest == ParseMembers(SubSeq(ts, 5, Len(ts)))
         IN  IF rest.ok THEN Good(rest.v @@ (ts[1] :> IntOf[ts[3]])) ELSE Bad

\* The elements of a JSON array of numbers; the count of elements.
RECURSIVE ParseElements(_)
ParseElements(ts) ==
    IF Len(ts) < 1 \/ ts[1] \notin DOMAIN IntOf THEN Bad
    ELSE IF Len(ts) = 1 THEN Good(1)
    ELSE IF ts[2] # "," THEN Bad
    ELSE LET rest == ParseElements(SubSeq(ts, 3, Len(ts)))
         IN  IF rest.ok THEN Good(rest.v + 1) ELSE Bad

\* json.loads(text): the decoded value, or a JSONDecodeError (ok = FALSE).
JsonLoads(ts) ==
    IF Len(ts) = 0 THEN Bad
    ELSE IF ts = <<"null">> THEN Good(NullVal)
    ELSE IF Len(ts) = 1 THEN
        IF ts[1] \in DOMAIN IntOf THEN Good(NumVal(IntOf[ts[1]]))
        ELSE IF ts[1] \in StringLits THEN Good(TextVal)
        ELSE Bad
    ELSE IF ts[1] = "{" /\ ts[Len(ts)] = "}" THEN
        IF Len(ts) = 2 THEN Good(MapVal(EmptyMap))
        ELSE LET ms == ParseMembers(SubSeq(ts, 2, Len(ts) - 1))
             IN  IF ms.ok THEN Good(MapVal(ms.v)) ELSE Bad
    ELSE IF ts[1] = "[" /\ ts[Len(ts)] = "]" THEN
        IF Len(ts) = 2 THEN Good(ListVal(0))
        ELSE LET es == ParseElements(SubSeq(ts, 2, Len(ts) - 1))
             IN  IF es.ok THEN Good(ListVal(es.v)) ELSE Bad
    ELSE Bad

NormalizeArgsNoFallback(args) ==
    IF args.t = "str"
    THEN LET p == JsonLoads(args.s) IN IF p.ok THEN p.v ELSE NullVal
    ELSE args
\* process_command, lines 600-606: cmd_args = command.get('args', {}); a str
\* is json.loads-ed, and a text that does not parse becomes {}.
NormalizeArgs(args) ==
    IF args.t = "str"
    THEN LET p == JsonLoads(args.s) IN IF p.ok THEN p.v ELSE MapVal(EmptyMap)
    ELSE args

----------------------------------------------------------------------------
(* Handler results.  A result is the dict the handler returns; message     *)
(* texts are sequences of strings.                                         *)

MinUncapped(a, b) == a
Min(a, b) == IF a < b THEN a ELSE b

Fail(msg) == [success |-> FALSE, error |-> msg]

\* type(x).__name__ of a value that is not a dict, as it appears in the
\* AttributeError raised by args.get.
TypeName(v) ==
    CASE v.t = "null" -> "NoneType"
      [] v.t = "list" -> "list"
      [] v.t = "num" -> "int"
      [] v.t = "text" -> "str"
      [] OTHER -> "dict"

NoGet(v) == <<"'", TypeName(v), "' object has no attribute 'get'">>

ArgsGetLenient(args, key, default) ==
    Good(IF args.t = "map" /\ key \in DOMAIN args.m THEN args.m[key] ELSE default)
\* int(args.get(key, default)): the value, or the AttributeError of a value
\* that has no get.
ArgsGet(args, key, default) ==
    IF args.t = "map"
    THEN Good(IF key \in DOMAIN args.m THEN args.m[key] ELSE default)
    ELSE [ok |-> FALSE, msg |-> NoGet(args)]

\* The key, default and cap each argument-reading handler uses:
\* cmd_photo 212, cmd_audio 341, cmd_alarm 377, cmd_findme 405,
\* cmd_shutdown 540, cmd_restart 549 (these two do not cap the value).
ArgSpec ==
    ("cmd_photo" :> [key |-> "count", default |-> 1, capped |-> TRUE, cap |-> 5]) @@
    ("cmd_audio" :> [key |-> "duration", default |-> 10, capped |-> TRUE, cap |-> 120]) @@
    ("cmd_alarm" :> [key |-> "duration", default |-> 10, capped |-> TRUE, cap |-> 60]) @@
    ("cmd_findme" :> [key |-> "duration", default |-> 60, capped |-> TRUE, cap |-> 300]) @@
    ("cmd_shutdown" :> [key |-> "delay", default |-> 60, capped |-> FALSE, cap |-> 0]) @@
    ("cmd_restart" :> [key |-> "delay", default |-> 60, capped |-> FALSE, cap |-> 0])

\* min(int(args.get(key, default)), cap)
CappedArg(h, args) ==
    LET g == ArgsGet(args, ArgSpec[h].key, ArgSpec[h].default)
    IN  IF ~g.ok THEN g
        ELSE IF ArgSpec[h].capped THEN Good(Min(g.v, ArgSpec[h].cap))
        ELSE Good(g.v)

\* ', '.join(seq)
RECURSIVE Join(_)
Join(seq) ==
    IF Len(seq) = 0 THEN << >>
    ELSE IF Len(seq) = 1 THEN <<seq[1]>>
    ELSE <<seq[1], ", ">> \o Join(Tail(seq))

\* The exceptions the environment can raise inside a handler body (an OS
\* call, a device, the network).
EnvErrors == {<<"OSError">>}

GenericHandlers ==
    {"cmd_status", "cmd_screenshot", "cmd_location", "cmd_battery",
     "cmd_wifiinfo", "cmd_sysinfo", "cmd_listnetworks", "cmd_appusage",
     "cmd_processes", "cmd_lockscreen"}
ArgHandlers == {"cmd_photo", "cmd_audio", "cmd_shutdown", "cmd_restart"}

----------------------------------------------------------------------------
(* The running_commands dict.                                              *)

Kinds == {"alarm", "findme"}

\* self.running_commands.get(k): the stored flag, None (falsy) when absent.
Get(rc, k) == IF k \in DOMAIN rc THEN rc[k] ELSE FALSE

\* self.running_commands[k] = v
Put(rc, k, v) == [x \in DOMAIN rc \cup {k} |-> IF x = k THEN v ELSE rc[x]]

ThreadIds == 1..MaxThreads
Live(ths, k) == {i \in ThreadIds : ths[i] # Nil /\ ths[i].kind = k}
Free(ths) == {i \in ThreadIds : ths[i] = Nil}

SpawnJoined(ths, k) == ths
\* threading.Thread(target=...).start(): a new thread at the top of its
\* while loop.  stale and cancelled are history fields: stale marks a thread
\* after which another of its kind was started, cancelled marks a thread that
\* was running when stop / stopfind cleared its flag.
Spawn(ths, k) ==
    LET i == CHOOSE j \in Free(ths) : \A l \in Free(ths) : j <= l
    IN  [j \in ThreadIds |->
            IF j = i THEN [t |-> "thread", kind |-> k, pc |-> "check",
                           stale |-> FALSE, cancelled |-> FALSE]
            ELSE IF ths[j] # Nil /\ ths[j].kind = k
                 THEN [ths[j] EXCEPT !.stale = TRUE]
                 ELSE ths[j]]

MarkCancelled(ths, ks) ==
    [j \in ThreadIds |->
        IF ths[j] # Nil /\ ths[j].kind \in ks /\ ths[j].pc # "exit"
        THEN [ths[j] EXCEPT !.cancelled = TRUE]
        ELSE ths[j]]

----------------------------------------------------------------------------
(* process_command (lines 595-620), one step per statement that other      *)
(* threads can observe: the call (598-608), the handler (610-614), the     *)
(* completion write (616) and the return (617).  Every handler returns a   *)
(* dict and update_command_result swallows its own failures, so for a      *)
(* record with an id and a string command name nothing reaches the except  *)
(* clause of lines 619-620.                                                *)

\* Whether the handler of rec starts a background thread.
StartsThread(rec) ==
    LET h == HandlerOf(Lower(rec.command))
    IN  /\ h \in {"cmd_alarm", "cmd_findme"}
        /\ CappedArg(h, NormalizeArgs(rec.args)).ok

\* cap bounds the threads alive at once: a record that would start one more
\* is not delivered.
Deliver(rec, src, cap) ==
    /\ dpc = "idle"
    /\ StartsThread(rec) => Cardinality(ThreadIds \ Free(threads)) < cap
    /\ cur' = rec
    /\ via' = src
    /\ cmd_name' = Lower(rec.command)
    /\ cmd_args' = NormalizeArgs(rec.args)
    /\ dpc' = "handler"
    /\ result' = Nil
    /\ writes' = << >>
    /\ called' = "None"
    /\ fault' = Nil

UnknownResultNoName(name) == Fail(<<"Unknown command">>)
\* line 614: no handler is registered under cmd_name.
UnknownResult(name) == Fail(<<"Unknown command: ">> \o name)

InvokeUnknown ==
    /\ HandlerOf(cmd_name) = "None"
    /\ result' = UnknownResult(cmd_name)
    /\ UNCHANGED <<fault, taskVars>>

\* An exception with message m, raised inside a handler body.
Exc(m) == [t |-> "exc", msg |-> m]

CaughtGeneric(m) == Fail(<<"handler failed">>)
\* except Exception as e: return {'success': False, 'error': str(e)}: what a
\* handler with a try block returns when its body raised an exception with
\* message m.
Caught(m) == Fail(m)

\* cmd_status, cmd_screenshot, cmd_location, ...: the handlers that ignore
\* args.  The body succeeds, or an exception raised inside it is caught by
\* the handler's own except clause.
InvokeGeneric ==
    /\ HandlerOf(cmd_name) \in GenericHandlers
    /\ \/ /\ result' = [success |-> TRUE, handler |-> HandlerOf(cmd_name)]
          /\ fault' = fault
       \/ \E e \in EnvErrors :
            /\ fault' = Exc(e)
            /\ result' = Caught(e)
    /\ UNCHANGED taskVars

\* cmd_photo, cmd_audio, cmd_shutdown, cmd_restart: read one integer
\* argument, then act.
InvokeArgHandler ==
    /\ HandlerOf(cmd_name) \in ArgHandlers
    /\ LET a == CappedArg(HandlerOf(cmd_name), cmd_args)
       IN  IF ~a.ok
           THEN /\ fault' = Exc(a.msg)
                /\ result' = Caught(a.msg)
           ELSE \/ /\ result' = [success |-> TRUE, handler |-> HandlerOf(cmd_name),
                                 value |-> a.v]
                   /\ fault' = fault
                \/ \E e \in EnvErrors :
                     /\ fault' = Exc(e)
                     /\ result' = Caught(e)
    /\ UNCHANGED taskVars

\* cmd_alarm (374-400) and cmd_findme (402-439): set the flag, start the
\* thread, return at once.  cmd_findme also asks cmd_location for the
\* initial location, which has its own try block.
InvokeStart(h, k) ==
    /\ HandlerOf(cmd_name) = h
    /\ LET a == CappedArg(h, cmd_args)
       IN  IF ~a.ok
           THEN /\ fault' = Exc(a.msg)
                /\ result' = Caught(a.msg)
                /\ UNCHANGED taskVars
           ELSE /\ Free(threads) # {}
                /\ running_commands' = Put(running_commands, k, TRUE)
                /\ threads' = Spawn(threads, k)
                /\ fault' = fault
                /\ IF k = "findme"
                   THEN \E locOk \in BOOLEAN :
                          result' = [success |-> TRUE, started |-> k,
                                     duration |-> a.v, location |-> locOk]
                   ELSE result' = [success |-> TRUE, started |-> k,
                                   duration |-> a.v]

InvokeAlarm == InvokeStart("cmd_alarm", "alarm")
InvokeFindme == InvokeStart("cmd_findme", "findme")

StopfindFlagsAll(rc) == Put(Put(rc, "findme", FALSE), "alarm", FALSE)
\* cmd_stopfind (441-444)
StopfindFlags(rc) == Put(rc, "findme", FALSE)

InvokeStopfind ==
    /\ HandlerOf(cmd_name) = "cmd_stopfind"
    /\ running_commands' = StopfindFlags(running_commands)
    /\ threads' = MarkCancelled(threads,
                     {k \in Kinds : Get(running_commands, k)
                                    /\ ~Get(running_commands', k)})
    /\ result' = [success |-> TRUE, message |-> <<"Find Me stopped">>]
    /\ fault' = fault

StopFlagsFirstOnly(rc) ==
    IF Get(rc, "alarm") THEN Put(rc, "alarm", FALSE)
    ELSE IF Get(rc, "findme") THEN Put(rc, "findme", FALSE) ELSE rc
\* cmd_stop (446-471): the flags after lines 452-459.
StopFlags(rc) ==
    LET r1 == IF Get(rc, "alarm") THEN Put(rc, "alarm", FALSE) ELSE rc
    IN  IF Get(r1, "findme") THEN Put(r1, "findme", FALSE) ELSE r1

\* cmd_stop: the stopped list; sdOk: sd.stop() returned without raising
\* (line 463), and then 'audio' is appended whether or not a recording ran.
StopList(rc, sdOk) ==
    (IF Get(rc, "alarm") THEN <<"alarm">> ELSE << >>)
    \o (IF Get(rc, "findme") THEN <<"findme">> ELSE << >>)
    \o (IF sdOk THEN <<"audio">> ELSE << >>)

\* line 468
StopMessage(stopped) ==
    IF Len(stopped) > 0 THEN <<"Stopped: ">> \o Join(stopped)
    ELSE <<"No active commands to stop">>

InvokeStop ==
    /\ HandlerOf(cmd_name) = "cmd_stop"
    /\ running_commands' = StopFlags(running_commands)
    /\ threads' = MarkCancelled(threads,
                     {k \in Kinds : Get(running_commands, k)
                                    /\ ~Get(running_commands', k)})
    /\ \E sdOk \in BOOLEAN :
         LET stopped == StopList(running_commands, sdOk)
         IN  result' = [success |-> TRUE, stopped |-> stopped,
                        message |-> StopMessage(stopped)]
    /\ fault' = fault

\* lines 610-614: result = handler(cmd_args), or the unknown-command result;
\* H is the handler's own effect.
Invoking(H) ==
    /\ dpc = "handler"
    /\ called' = HandlerOf(cmd_name)
    /\ dpc' = "update"
    /\ H
    /\ UNCHANGED <<cur, cmd_name, cmd_args, writes, via, listenVars>>

Invoke ==
    Invoking(\/ InvokeUnknown
             \/ InvokeGeneric
             \/ InvokeArgHandler
             \/ InvokeAlarm
             \/ InvokeFindme
             \/ InvokeStopfind
             \/ InvokeStop)

\* The same for the records of the listen() model, which name a handler that
\* ignores args or no handler.
InvokePlain == Invoking(InvokeUnknown \/ InvokeGeneric)

CompleteRowDelete(st, id, res) ==
    [i \in DOMAIN st |-> IF i = id THEN Nil ELSE st[i]]
\* update_command_result (584-593): the row with this id becomes completed
\* and carries the result; a failed request is logged and swallowed.
CompleteRow(st, id, res) ==
    [i \in DOMAIN st |->
        IF i = id /\ st[i] # Nil
        THEN [st[i] EXCEPT !.status = "completed", !.result = res]
        ELSE st[i]]

\* lines 587-591: the update request: status, result (the dict handed to
\* json.dumps) and completed_at for the row with this id; ok: the request
\* succeeded, so the row is now completed.
WriteFor(id, res, ok) ==
    [id |-> id, status |-> "completed", result |-> res,
     completed_at |-> "utcnow", ok |-> ok]

IssueWriteTwice(ws, id, res, ok) ==
    Append(Append(ws, WriteFor(id, res, ok)), WriteFor(id, res, ok))
\* line 616: process_command calls update_command_result once.
IssueWrite(ws, id, res, ok) == Append(ws, WriteFor(id, res, ok))

Report ==
    /\ dpc = "update"
    /\ dpc' = "log"
    /\ \E ok \in BOOLEAN :
         /\ writes' = IssueWrite(writes, cur.id, result, ok)
         /\ store' = IF ok THEN CompleteRow(store, cur.id, result) ELSE store
    /\ UNCHANGED <<cur, cmd_name, cmd_args, result, called, fault, via, taskVars,
                   config, running, hb, mpc, batch, push_queue, channel, log>>

\* line 617, and the return to the caller.
Return ==
    /\ dpc = "log"
    /\ dpc' = "idle"
    /\ cur' = Nil /\ cmd_name' = << >> /\ cmd_args' = Nil /\ result' = Nil
    /\ writes' = << >> /\ called' = "None" /\ fault' = Nil /\ via' = "none"
    /\ UNCHANGED <<taskVars, listenVars>>

----------------------------------------------------------------------------
(* play_alarm (382-390) and find_loop (409-425).  Wall-clock time is the   *)
(* environment's: at each test of the while condition the duration may or  *)
(* may not have elapsed.                                                   *)

SetThread(i, th) == [threads EXCEPT ![i] = th]

\* while time.time() - start < duration: if not running_commands.get(k): break
TimeUpNever(i) == FALSE
\* "while time.time() - start < duration" is false: the duration has elapsed.
TimeUp(i) == threads' = SetThread(i, [threads[i] EXCEPT !.pc = "exit"])

ThreadCheck(i) ==
    /\ threads[i] # Nil /\ threads[i].pc = "check"
    /\ \/ TimeUp(i)
       \/ /\ ~Get(running_commands, threads[i].kind)
          /\ threads' = SetThread(i, [threads[i] EXCEPT !.pc = "exit"])
       \/ /\ Get(running_commands, threads[i].kind)
          /\ threads' = SetThread(i, [threads[i] EXCEPT !.pc = "beep"])
    /\ UNCHANGED <<running_commands, dispVars, listenVars>>

\* winsound.Beep, time.sleep.  find_loop also reports the location to the
\* devices table every tenth second (419-423); that row is not part of the
\* state modelled here.
ThreadBeep(i) ==
    /\ threads[i] # Nil /\ threads[i].pc = "beep"
    /\ threads' = SetThread(i, [threads[i] EXCEPT !.pc = "check"])
    /\ UNCHANGED <<running_commands, dispVars, listenVars>>

ExitFlagsKept(rc, k) == rc
ExitFlagsSet(rc, k) == Put(rc, k, TRUE)
\* self.running_commands[k] = False after the loop; the thread ends.
ExitFlags(rc, k) == Put(rc, k, FALSE)

ThreadExit(i) ==
    /\ threads[i] # Nil /\ threads[i].pc = "exit"
    /\ running_commands' = ExitFlags(running_commands, threads[i].kind)
    /\ threads' = SetThread(i, Nil)
    /\ UNCHANGED <<dispVars, listenVars>>

ThreadStep == \E i \in ThreadIds : ThreadCheck(i) \/ ThreadBeep(i) \/ ThreadExit(i)

----------------------------------------------------------------------------
(* listen() (666-698) with process_pending_commands (651-664),             *)
(* listen_realtime (700-728), on_command_received (622-637) and            *)
(* listen_polling (730-753).  The main thread calls process_command        *)
(* synchronously, so it takes its next step only when dpc = "idle".        *)

Me == "me"

\* A row of the commands table as the control plane inserts it.
Row(dev, name) ==
    [t |-> "row", device_id |-> dev, command |-> name,
     args |-> MapVal(EmptyMap), status |-> "pending", result |-> Nil]

\* The result of a row that something other than this agent completed.
PriorResult == [t |-> "prior"]

\* A row as the control plane inserts it: pending, or already completed.
InsertedRow(dev, name, status) ==
    IF status = "pending" THEN Row(dev, name)
    ELSE [Row(dev, name) EXCEPT !.status = status, !.result = PriorResult]

\* The dict of a row as a query or an INSERT event delivers it.
RecordOf(st, i) ==
    [id |-> i, device_id |-> st[i].device_id, command |-> st[i].command,
     args |-> st[i].args, status |-> st[i].status]

PendingIdsAnyStatus(st, dev) ==
    {i \in DOMAIN st : st[i] # Nil /\ st[i].device_id = dev}
\* .eq('device_id', self.device_id).eq('status', 'pending')
PendingIds(st, dev) ==
    {i \in DOMAIN st : st[i] # Nil /\ st[i].device_id = dev
                       /\ st[i].status = "pending"}

QueryResultsAnyStatus(st, dev) ==
    LET S == PendingIdsAnyStatus(st, dev)
        n == Cardinality(S)
    IN  {[k \in 1..n |-> RecordOf(st, q[k])] :
            q \in {f \in [1..n -> S] : \A x \in S : \E k \in 1..n : f[k] = x}}
\* result.data: the matching rows, in an order the store chooses.
QueryResults(st, dev) ==
    LET S == PendingIds(st, dev)
        n == Cardinality(S)
    IN  {[k \in 1..n |-> RecordOf(st, q[k])] :
            q \in {f \in [1..n -> S] : \A x \in S : \E k \in 1..n : f[k] = x}}

\* One more call of process_command for the command id (log.runs).
CountRun(l, id) == [l EXCEPT !.runs[id] = Min(@ + 1, MaxRuns)]

\* The command names the control plane inserts in this model.
ListenNames == {n_status, <<"B","o","g","u","s">>}

\* The control plane inserts a row; the store assigns the next id.  (The
\* name of a row inserted completed is never looked at, so one name does.)  A
\* subscribed channel, filtered to this device, gets the INSERT event.
InsertCommand ==
    /\ \E i \in CmdIds :
         /\ store[i] = Nil
         /\ \A j \in CmdIds : j < i => store[j] # Nil
         /\ \E dev \in {Me, "other"}, name \in ListenNames,
               status \in {"pending", "completed"} :
              /\ status = "completed" => name = n_status
              /\ store' = [store EXCEPT ![i] = InsertedRow(dev, name, status)]
              /\ push_queue' =
                    IF mpc = "rt_live" /\ channel = "up" /\ dev = config.device_id
                    THEN Append(push_queue, RecordOf(store', i))
                    ELSE push_queue
    /\ UNCHANGED <<taskVars, dispVars, config, running, hb, mpc, batch, channel, log>>

NoDeviceContinue == "sweep_query"
\* lines 670-672: without a device id listen() logs an error and returns.
NoDeviceExit == "returned"

\* lines 670-675
ListenStart ==
    /\ mpc = "start"
    /\ \/ /\ config.device_id = "none"
          /\ mpc' = NoDeviceExit
          /\ UNCHANGED running
       \/ /\ config.device_id # "none"
          /\ running' = TRUE
          /\ mpc' = "sweep_query"
    /\ UNCHANGED <<taskVars, dispVars, config, hb, store, batch, push_queue, channel, log>>

AfterSweepAgain == "sweep_query"
\* lines 678-681: process_pending_commands has returned, listen() goes on to
\* start the heartbeat thread.
AfterSweep == "hb_start"

\* process_pending_commands: the query of lines 654-656, or its failure,
\* which line 663 catches.  log.sweeps counts the calls.
SweepQuery ==
    /\ mpc = "sweep_query"
    /\ \/ \E q \in QueryResults(store, config.device_id) :
            /\ batch' = q
            /\ mpc' = "sweep_iter"
       \/ /\ batch' = << >>
          /\ mpc' = AfterSweep
    /\ log' = [log EXCEPT !.sweeps = @ + 1]
    /\ UNCHANGED <<taskVars, dispVars, config, running, hb, store, push_queue, channel>>

NextCommandLast(seq) == seq[Len(seq)]
\* lines 658 and 741: "for command in result.data" takes the rows in the
\* order of the list; the channel calls back in the order of its events.
NextCommand(seq) == Head(seq)

\* for command in result.data: self.process_command(command)
SweepIter ==
    /\ mpc = "sweep_iter"
    /\ batch # << >>
    /\ Deliver(NextCommand(batch), "sweep", MaxThreads)
    /\ batch' = Tail(batch)
    /\ log' = CountRun(log, NextCommand(batch).id)
    /\ UNCHANGED <<taskVars, config, running, hb, mpc, store, push_queue, channel>>

SweepDone ==
    /\ mpc = "sweep_iter"
    /\ batch = << >>
    /\ dpc = "idle"
    /\ mpc' = AfterSweep
    /\ UNCHANGED <<taskVars, dispVars, config, running, hb, store, batch,
                   push_queue, channel, log>>

\* lines 681-683
StartHeartbeat ==
    /\ mpc = "hb_start"
    /\ hb' = "check"
    /\ mpc' = "select"
    /\ UNCHANGED <<taskVars, dispVars, config, running, store, batch,
                   push_queue, channel, log>>

\* lines 686 and 696-698
SelectTransport ==
    /\ mpc = "select"
    /\ \/ /\ config.realtime
          /\ mpc' = "rt_setup"
          /\ log' = log
       \/ /\ ~config.realtime
          /\ log' = [log EXCEPT !.unavailable = @ + 1]
          /\ mpc' = "poll_enter"
    /\ UNCHANGED <<taskVars, dispVars, config, running, hb, store, batch, push_queue, channel>>

\* lines 693-694: "Realtime failed: ...", "Falling back to polling mode..."
LogFallback(l) == [l EXCEPT !.failed = @ + 1, !.fallback = @ + 1]

AfterSetupFailureRetry == "rt_setup"
\* line 695: after the failure listen() calls listen_polling().
AfterSetupFailure == "poll_enter"

\* listen_realtime up to line 720: create_async_client and
\* channel.subscribe() succeed, or one of them raises and line 692 catches it.
RealtimeSetup ==
    /\ mpc = "rt_setup"
    /\ \/ /\ mpc' = "rt_live"
          /\ channel' = "up"
          /\ log' = log
       \/ /\ log' = LogFallback(log)
          /\ mpc' = AfterSetupFailure
          /\ channel' = channel
    /\ UNCHANGED <<taskVars, dispVars, config, running, hb, store, batch, push_queue>>

\* on_command_received (622-637) for the next INSERT event of the channel.
PushDeliver ==
    /\ mpc = "rt_live"
    /\ push_queue # << >>
    /\ dpc = "idle"
    /\ LET ev == NextCommand(push_queue)
       IN  IF ev.device_id = config.device_id /\ ev.status = "pending"
           THEN Deliver(ev, "push", MaxThreads) /\ log' = CountRun(log, ev.id)
           ELSE UNCHANGED <<dispVars, log>>
    /\ push_queue' = Tail(push_queue)
    /\ UNCHANGED <<taskVars, config, running, hb, mpc, store, batch, channel>>

\* listen_polling, lines 731-734: "Using polling mode (fallback)..." and the
\* poll interval read from the config.
PollEnter ==
    /\ mpc = "poll_enter"
    /\ log' = [log EXCEPT !.polling = @ + 1]
    /\ mpc' = "poll_query"
    /\ UNCHANGED <<taskVars, dispVars, config, running, hb, store, batch, push_queue, channel>>

AfterQueryFailureStop == "returned"
\* lines 750-753: the except clause is inside the while body, so a failed
\* cycle is logged and goes on to the sleep of line 753.
AfterQueryFailure == "poll_sleep"

\* listen_polling: the query of lines 737-739, or its failure (750).
PollQuery ==
    /\ mpc = "poll_query"
    /\ running
    /\ \/ \E q \in QueryResults(store, config.device_id) :
            /\ batch' = q
            /\ mpc' = "poll_iter"
       \/ /\ batch' = << >>
          /\ mpc' = AfterQueryFailure
    /\ UNCHANGED <<taskVars, dispVars, config, running, hb, store, push_queue, channel, log>>

\* lines 741-742
PollIter ==
    /\ mpc = "poll_iter"
    /\ batch # << >>
    /\ Deliver(NextCommand(batch), "poll", MaxThreads)
    /\ batch' = Tail(batch)
    /\ log' = CountRun(log, NextCommand(batch).id)
    /\ UNCHANGED <<taskVars, config, running, hb, mpc, store, push_queue, channel>>

\* lines 744-748: the liveness update of the poll cycle, which succeeds or
\* is caught by line 750.
PollHeartbeat ==
    /\ mpc = "poll_iter"
    /\ batch = << >>
    /\ dpc = "idle"
    /\ mpc' = "poll_sleep"
    /\ \E ok \in BOOLEAN :
         log' = [log EXCEPT !.beat = IF ok THEN "ok" ELSE "failed"]
    /\ UNCHANGED <<taskVars, dispVars, config, running, hb, store, batch,
                   push_queue, channel>>

AfterSleepRetryPush == "rt_setup"
\* lines 753 and 734: after the sleep the loop tests self.running and polls
\* again; nothing in listen_polling goes back to listen_realtime.
AfterSleep == "poll_query"

\* line 753
PollSleep ==
    /\ mpc = "poll_sleep"
    /\ mpc' = AfterSleep
    /\ UNCHANGED <<taskVars, dispVars, config, running, hb, store, batch,
                   push_queue, channel, log>>


\* heartbeat_loop (639-649), line 641: while self.running.
HbCheck ==
    /\ hb = "check"
    /\ hb' = IF running THEN "write" ELSE "done"
    /\ UNCHANGED <<taskVars, dispVars, config, running, mpc, store, batch,
                   push_queue, channel, log>>

HbAfterFailureStop == "done"
\* lines 647-649: the failure is logged and the loop goes on to its sleep.
HbAfterFailure == "sleep"

\* lines 642-648: the liveness update of the devices row (last_seen = now,
\* is_online = true) succeeds, or it raises and the failure is logged.
HbWrite ==
    /\ hb = "write"
    /\ \/ /\ hb' = "sleep"
          /\ log' = [log EXCEPT !.beat = "ok", !.fails = 0]
       \/ /\ hb' = HbAfterFailure
          /\ log' = [log EXCEPT !.beat = "failed", !.fails = Min(@ + 1, MaxFails)]
    /\ UNCHANGED <<taskVars, dispVars, config, running, mpc, store, batch,
                   push_queue, channel>>

AfterHbSleepOnce == "done"
\* line 649 is the last statement of the while body.
AfterHbSleep == "check"

\* line 649: time.sleep(30), then back to the test of line 641.
HbSleep ==
    /\ hb = "sleep"
    /\ hb' = AfterHbSleep
    /\ UNCHANGED <<taskVars, dispVars, config, running, mpc, store, batch,
                   push_queue, channel, log>>

HbStep == HbCheck \/ HbWrite \/ HbSleep

\* The subscribed channel drops.  The keep-alive loop of lines 727-728 reads
\* self.running and nothing else, and the callback is the only other code
\* of listen_realtime the client runs, so the drop changes nothing the main
\* thread looks at; INSERT events of later rows are not delivered.
ChannelDrop ==
    /\ mpc = "rt_live"
    /\ channel = "up"
    /\ channel' = "down"
    /\ UNCHANGED <<taskVars, dispVars, config, running, hb, mpc, store, batch,
                   push_queue, log>>

\* The positions of the main thread inside the try block of lines 687-688.
PushPcs == {"rt_setup", "rt_live"}
\* The positions of the main thread inside listen_polling.
PollingPcs == {"poll_enter", "poll_query", "poll_iter", "poll_sleep"}
\* The positions of listen() before the try block.
StartupPcs == {"sweep_query", "sweep_iter", "hb_start", "select"}

\* A KeyboardInterrupt raised in the main thread while it is between two
\* commands.  Inside asyncio.run it is caught by line 689: the line 690 is
\* logged and self.running is cleared.  Anywhere else in listen() no except
\* clause matches it (line 692 catches Exception only, and listen_polling is
\* called from outside the try block), so it leaves listen() and main(), and
\* the interpreter exits, ending the daemon heartbeat thread with it.
Interrupt ==
    /\ dpc = "idle"
    /\ \/ /\ mpc \in PushPcs
          /\ running' = FALSE
          /\ mpc' = "returned"
          /\ log' = [log EXCEPT !.stopped = @ + 1]
          /\ hb' = hb
       \/ /\ mpc \in PollingPcs \cup StartupPcs
          /\ mpc' = "raised"
          /\ hb' = IF hb = "off" THEN "off" ELSE "killed"
          /\ UNCHANGED <<running, log>>
    /\ batch' = << >>
    /\ push_queue' = << >>
    /\ UNCHANGED <<taskVars, dispVars, config, store, channel>>

----------------------------------------------------------------------------
(* The records a transport can deliver: an id, a command name in any       *)
(* letter case, and an args value of any JSON shape.                       *)

InputNames ==
    {n_status, n_photo, n_alarm, n_findme, n_stopfind, n_stop,
     <<"S","t","o","p">>, <<"b","o","g","u","s">>, <<"B","o","g","u","s">>}

\* The names every args value is tried with: a handler that starts a thread,
\* one that reads an argument, one that ignores args, and no handler.
ArgNames == {n_alarm, n_photo, n_stop, <<"B","o","g","u","s">>}

InputArgs ==
    {MapVal(EmptyMap), NullVal}
    \cup {MapVal("duration" :> d) : d \in 1..MaxDuration}
    \cup {StrVal(<<"{", "duration", ":", "1", "}">>),
          StrVal(<<"{", "duration">>),
          StrVal(<<"[", "1", "]">>),
          StrVal(<<"1">>),
          StrVal(<<"\"x\"">>)}

Records ==
    {[id |-> i, command |-> n, args |-> a] :
        i \in CmdIds, n \in ArgNames, a \in InputArgs}
    \cup {[id |-> i, command |-> n, args |-> MapVal("duration" :> 1)] :
        i \in CmdIds, n \in InputNames}

\* The log lines counted: "Realtime failed" (693), "Falling back to polling
\* mode..." (694), "Realtime not available, using polling mode" (697),
\* "Using polling mode (fallback)..." (732).
\* Further: sweeps counts the calls of process_pending_commands, stopped the
\* "Command listener stopped by user" lines (690), beat is the outcome of the
\* last liveness write ("none" before the first) and fails the number of
\* heartbeat_loop writes that failed in a row, and runs the number of times
\* listen() handed each command id to process_command.
NoLog == [failed |-> 0, fallback |-> 0, unavailable |-> 0, polling |-> 0,
          sweeps |-> 0, stopped |-> 0, beat |-> "none", fails |-> 0,
          runs |-> [i \in CmdIds |-> 0]]

Init ==
    /\ running_commands = [k \in {} |-> FALSE]
    /\ threads = [i \in ThreadIds |-> Nil]
    /\ dpc = "idle"
    /\ cur = Nil /\ cmd_name = << >> /\ cmd_args = Nil /\ result = Nil
    /\ writes = << >> /\ called = "None" /\ fault = Nil /\ via = "none"
    /\ config = [device_id |-> "me", realtime |-> TRUE]
    /\ running = FALSE
    /\ hb = "off"
    /\ mpc = "off"
    /\ store = [i \in CmdIds |-> Nil]
    /\ batch = << >>
    /\ push_queue = << >>
    /\ channel = "none"
    /\ log = NoLog

\* The dispatcher fed any record, with the background threads.
DeliverAny ==
    /\ \E rec \in Records : Deliver(rec, "direct", DispatchThreads)
    /\ UNCHANGED <<taskVars, listenVars>>

NextDispatch ==
    \/ DeliverAny
    \/ Invoke
    \/ Report
    \/ Return
    \/ ThreadStep

SpecDispatch == Init /\ [][NextDispatch]_vars

\* The dispatcher fed the records of the four task commands.
TaskRecords ==
    {[id |-> 1, command |-> n, args |-> MapVal("duration" :> 1)] :
        n \in {n_alarm, n_findme, n_stopfind, n_stop}}

DeliverTask ==
    /\ \E rec \in TaskRecords : Deliver(rec, "direct", MaxThreads)
    /\ UNCHANGED <<taskVars, listenVars>>

Next ==
    \/ DeliverTask
    \/ Invoke
    \/ Report
    \/ Return
    \/ ThreadStep

Spec == Init /\ [][Next]_vars

\* The dispatcher fed the commands whose handlers cap an integer argument,
\* with requested values below, at and above each cap.
CapInputs == {0, 1, 4, 5, 6, 59, 60, 61, 119, 120, 121, 299, 300, 301}

CapRecords ==
    {[id |-> 1, command |-> n,
      args |-> MapVal(ArgSpec[HandlerOf(n)].key :> v)] :
        n \in {n_photo, n_audio, n_alarm, n_findme}, v \in CapInputs}

DeliverCap ==
    /\ \E rec \in CapRecords : Deliver(rec, "direct", DispatchThreads)
    /\ UNCHANGED <<taskVars, listenVars>>

NextCaps ==
    \/ DeliverCap
    \/ Invoke
    \/ Report
    \/ Return
    \/ ThreadStep

SpecCaps == Init /\ [][NextCaps]_vars

\* The dispatcher fed one sequence of up to MaxCommands task commands, one
\* after the other, and nothing after them.
MaxCommands == 3

Scripts ==
    UNION {[1..n -> TaskRecords] : n \in 1..MaxCommands}

InitScript ==
    /\ running_commands = [k \in {} |-> FALSE]
    /\ threads = [i \in ThreadIds |-> Nil]
    /\ dpc = "idle"
    /\ cur = Nil /\ cmd_name = << >> /\ cmd_args = Nil /\ result = Nil
    /\ writes = << >> /\ called = "None" /\ fault = Nil /\ via = "none"
    /\ config = [device_id |-> Me, realtime |-> TRUE]
    /\ running = FALSE
    /\ hb = "off"
    /\ mpc = "off"
    /\ store = [i \in CmdIds |-> Nil]
    /\ batch \in Scripts
    /\ push_queue = << >>
    /\ channel = "none"
    /\ log = NoLog

DeliverScript ==
    /\ batch # << >>
    /\ Deliver(NextCommand(batch), "direct", MaxThreads)
    /\ batch' = Tail(batch)
    /\ UNCHANGED <<taskVars, config, running, hb, mpc, store, push_queue,
                   channel, log>>

DispatchStep == DeliverScript \/ Invoke \/ Report \/ Return

\* The time test of a loop: line 385 for alarm, 412 for findme.
ThreadTimeUp(i) ==
    /\ threads[i] # Nil /\ threads[i].pc = "check"
    /\ TimeUp(i)
    /\ UNCHANGED <<running_commands, dispVars, listenVars>>

NextScript ==
    \/ DispatchStep
    \/ ThreadStep

\* Every thread is scheduled again and again, and time passes: a loop that
\* keeps coming back to its time test finds its duration elapsed at last
\* (every iteration beeps and sleeps, and the duration is at most the cap).
SpecScript ==
    /\ InitScript /\ [][NextScript]_vars
    /\ WF_vars(DispatchStep)
    /\ \A i \in ThreadIds :
          /\ WF_vars(ThreadCheck(i) \/ ThreadBeep(i) \/ ThreadExit(i))
          /\ SF_vars(ThreadTimeUp(i))

\* The dispatcher fed the task commands and, any number of times, the record
\* of one row of the store (a duplicate delivery).
DupId == MaxCmdId

InitDup ==
    /\ running_commands = [k \in {} |-> FALSE]
    /\ threads = [i \in ThreadIds |-> Nil]
    /\ dpc = "idle"
    /\ cur = Nil /\ cmd_name = << >> /\ cmd_args = Nil /\ result = Nil
    /\ writes = << >> /\ called = "None" /\ fault = Nil /\ via = "none"
    /\ config = [device_id |-> Me, realtime |-> TRUE]
    /\ running = FALSE
    /\ hb = "off"
    /\ mpc = "off"
    /\ \E n \in {n_alarm, n_findme, n_stopfind, n_stop} :
          store = [i \in CmdIds |-> IF i = DupId THEN Row(Me, n) ELSE Nil]
    /\ batch = << >>
    /\ push_queue = << >>
    /\ channel = "none"
    /\ log = NoLog

DeliverDup ==
    /\ Deliver(RecordOf(store, DupId), "direct", MaxThreads)
    /\ UNCHANGED <<taskVars, listenVars>>

NextDup ==
    \/ DeliverTask
    \/ DeliverDup
    \/ Invoke
    \/ Report
    \/ Return
    \/ ThreadStep

SpecDup == InitDup /\ [][NextDup]_vars

\* The agent from the call of listen(), with the control plane inserting
\* commands.  Under SpecListen the heartbeat thread is started and ended but
\* its own steps are left out; SpecHeartbeat has them.
InitListen ==
    /\ running_commands = [k \in {} |-> FALSE]
    /\ threads = [i \in ThreadIds |-> Nil]
    /\ dpc = "idle"
    /\ cur = Nil /\ cmd_name = << >> /\ cmd_args = Nil /\ result = Nil
    /\ writes = << >> /\ called = "None" /\ fault = Nil /\ via = "none"
    /\ config \in {[device_id |-> d, realtime |-> r] :
                      d \in {Me, "none"}, r \in BOOLEAN}
    /\ running = FALSE
    /\ hb = "off"
    /\ mpc = "start"
    /\ store = [i \in CmdIds |-> Nil]
    /\ batch = << >>
    /\ push_queue = << >>
    /\ channel = "none"
    /\ log = NoLog

NextListen ==
    \/ InsertCommand
    \/ ListenStart
    \/ SweepQuery
    \/ SweepIter
    \/ SweepDone
    \/ StartHeartbeat
    \/ SelectTransport
    \/ RealtimeSetup
    \/ PushDeliver
    \/ PollEnter
    \/ PollQuery
    \/ PollIter
    \/ PollHeartbeat
    \/ PollSleep
    \/ ChannelDrop
    \/ Interrupt
    \/ InvokePlain
    \/ Report
    \/ Return

SpecListen == InitListen /\ [][NextListen]_vars

\* process_pending_commands called a second time, and the control plane
\* inserting commands only before the first call.
SweepAgain ==
    /\ mpc = AfterSweep
    /\ log.sweeps = 1
    /\ mpc' = "sweep_query"
    /\ UNCHANGED <<taskVars, dispVars, config, running, hb, store, batch,
                   push_queue, channel, log>>

InsertBacklog == log.sweeps = 0 /\ InsertCommand

NextSweep ==
    \/ InsertBacklog
    \/ ListenStart
    \/ SweepQuery
    \/ SweepIter
    \/ SweepDone
    \/ SweepAgain
    \/ InvokePlain
    \/ Report
    \/ Return

SpecSweep == InitListen /\ [][NextSweep]_vars

\* The steps of the main thread: listen() and what it calls.
MainStep ==
    \/ ListenStart
    \/ SweepQuery
    \/ SweepIter
    \/ SweepDone
    \/ StartHeartbeat
    \/ SelectTransport
    \/ RealtimeSetup
    \/ PushDeliver
    \/ PollEnter
    \/ PollQuery
    \/ PollIter
    \/ PollHeartbeat
    \/ PollSleep
    \/ InvokePlain
    \/ Report
    \/ Return

\* The control plane inserting up to MaxHbCmds commands, all of them status
\* commands for this device.
InsertOwn ==
    /\ InsertCommand
    /\ \A i \in CmdIds :
          store'[i] # Nil =>
              /\ i <= MaxHbCmds
              /\ store'[i].device_id = Me
              /\ store'[i].command = n_status
              /\ store'[i].result # PriorResult

\* The same agent with the steps of the heartbeat thread interleaved.  Only
\* the heartbeat thread is scheduled again and again: the main thread may
\* stay inside a call (a handler, a request to the store, the subscription)
\* for ever.
NextHeartbeat ==
    \/ InsertOwn
    \/ MainStep
    \/ ChannelDrop
    \/ Interrupt
    \/ HbStep

SpecHeartbeat == InitListen /\ [][NextHeartbeat]_vars /\ WF_vars(HbStep)

\* Both threads are scheduled again and again: every call the main thread
\* makes returns and every sleep ends.
SpecListenFair ==
    InitListen /\ [][NextHeartbeat]_vars /\ WF_vars(MainStep) /\ WF_vars(HbStep)

\* The control plane inserting pending status commands for this device.
InsertMine ==
    /\ InsertCommand
    /\ \A i \in CmdIds :
          store'[i] # Nil =>
              /\ store'[i].device_id = Me
              /\ store'[i].command = n_status
              /\ store'[i].result # PriorResult

NextLive ==
    \/ InsertMine
    \/ MainStep
    \/ ChannelDrop
    \/ Interrupt

\* The agent with the main thread scheduled again and again: every call it
\* makes returns and every sleep ends.
SpecListenLive == InitListen /\ [][NextLive]_vars /\ WF_vars(MainStep)

\* The agent when every request to the store succeeds, the channel stays up
\* and nobody interrupts: both threads are scheduled again and again.
ReportOk == Report /\ writes'[1].ok
SweepQueryOk == SweepQuery /\ mpc' = "sweep_iter"
PollQueryOk == PollQuery /\ mpc' = "poll_iter"
PollHeartbeatOk == PollHeartbeat /\ log'.beat = "ok"
HbWriteOk == HbWrite /\ log'.beat = "ok"

MainStepOk ==
    \/ ListenStart
    \/ SweepQueryOk
    \/ SweepIter
    \/ SweepDone
    \/ StartHeartbeat
    \/ SelectTransport
    \/ RealtimeSetup
    \/ PushDeliver
    \/ PollEnter
    \/ PollQueryOk
    \/ PollIter
    \/ PollHeartbeatOk
    \/ PollSleep
    \/ InvokePlain
    \/ ReportOk
    \/ Return

HbStepOk == HbCheck \/ HbWriteOk \/ HbSleep

NextOk ==
    \/ InsertOwn
    \/ MainStepOk
    \/ HbStepOk

SpecListenOk ==
    InitListen /\ [][NextOk]_vars /\ WF_vars(MainStepOk) /\ WF_vars(HbStepOk)

----------------------------------------------------------------------------
(* Claims about the dispatcher, checked under SpecDispatch.                *)

Unknown(rec) == Lower(rec.command) \notin DOMAIN handlers

\* C1 (as amended): whenever an exception is raised inside the body of the
\* handler of a delivered record, the result is {success: false, error:
\* <message>} (built by the handler's own except clause), and process_command
\* issues one completion write for the record's id with status completed and
\* that result; nothing propagates out of process_command.  Whether the row
\* ends completed is up to the store accepting the write.
C1_HandlerFailureReported ==
    fault # Nil =>
        /\ dpc \in {"update", "log"}
        /\ result = [success |-> FALSE, error |-> fault.msg]
        /\ dpc = "log" =>
              /\ Len(writes) = 1
              /\ writes[1].id = cur.id
              /\ writes[1].status = "completed"
              /\ writes[1].result = [success |-> FALSE, error |-> fault.msg]

\* C1 as stated: ... and the record is not left pending.
C1_Orig_NotLeftPending ==
    (dpc = "log" /\ fault # Nil) =>
        /\ result = [success |-> FALSE, error |-> fault.msg]
        /\ Len(writes) = 1
        /\ writes[1].id = cur.id
        /\ writes[1].ok

C1_Witness ==
    /\ dpc = "log"
    /\ fault # Nil /\ fault.msg \in EnvErrors
    /\ Len(writes) = 1 /\ writes[1].ok

\* C2: every delivery of a record, whatever its name and args, gets exactly
\* one completion write (status completed, timestamp, the result), for the
\* record's id, and not before the resolved handler was called and returned.
C2_ExactlyOneWrite ==
    /\ dpc \in {"idle", "handler", "update"} => writes = << >>
    /\ dpc = "handler" => called = "None" /\ result = Nil
    /\ dpc \in {"update", "log"} =>
          /\ result # Nil
          /\ called = HandlerOf(Lower(cur.command))
    /\ dpc = "log" =>
          /\ Len(writes) = 1
          /\ writes[1].id = cur.id
          /\ writes[1].status = "completed"
          /\ writes[1].completed_at = "utcnow"
          /\ writes[1].result = result

C2_Witness ==
    /\ dpc = "log"
    /\ cur.args = NullVal
    /\ called = "cmd_alarm"
    /\ Len(writes) = 1

\* C3 (as amended): a record whose lower-cased command name is not in the
\* registry gets exactly one completion, with success false and the error
\* text "Unknown command: " followed by the lower-cased name; no handler is
\* called and no exception is raised.
C3_UnknownCommand ==
    (dpc = "log" /\ Unknown(cur)) =>
        /\ Len(writes) = 1
        /\ writes[1].id = cur.id
        /\ writes[1].result =
              [success |-> FALSE,
               error |-> <<"Unknown command: ">> \o Lower(cur.command)]
        /\ called = "None"
        /\ fault = Nil

\* C3 as stated: the error text carries the record's command name.
C3_Orig_RecordName ==
    (dpc = "log" /\ Unknown(cur)) =>
        /\ Len(writes) = 1
        /\ writes[1].result =
              [success |-> FALSE,
               error |-> <<"Unknown command: ">> \o cur.command]

C3_Witness ==
    /\ dpc = "log"
    /\ cur.command = <<"B","o","g","u","s">>
    /\ Len(writes) = 1

----------------------------------------------------------------------------
(* Claims about the running-task slots, checked under Spec.                *)

Running(k) == {i \in Live(threads, k) : threads[i].pc \in {"check", "beep"}}

\* C4: for each kind at most one background loop is executing.
C4_AtMostOneLoop ==
    \A k \in Kinds : Cardinality(Running(k)) <= 1

\* C5: the exit write of a loop that has been superseded by a newer start of
\* its kind does not clear the flag that the newer start set.
C5_StaleExitKeepsFlag ==
    [][\A i \in ThreadIds :
          ( /\ threads[i] # Nil
            /\ threads[i].pc = "exit"
            /\ threads[i].stale
            /\ threads'[i] = Nil
            /\ Get(running_commands, threads[i].kind)
            /\ \E j \in Running(threads[i].kind) : ~threads[j].stale )
          => Get(running_commands', threads[i].kind)]_vars

StopStep ==
    dpc = "handler" /\ HandlerOf(cmd_name) = "cmd_stop" /\ dpc' = "update"

InSeq(x, seq) == \E n \in DOMAIN seq : seq[n] = x

\* C6: stop processed while the alarm is active reports "alarm", clears the
\* alarm flag, and the alarm loop that was running then leaves its loop at
\* its next test of the flag, whatever is processed in between.
C6_StopCancelsAlarmLoop ==
    [][ /\ (StopStep /\ Get(running_commands, "alarm")) =>
              /\ InSeq("alarm", result'.stopped)
              /\ ~Get(running_commands', "alarm")
        /\ \A i \in ThreadIds :
              ( /\ threads[i] # Nil
                /\ threads[i].kind = "alarm"
                /\ threads[i].cancelled
                /\ threads[i].pc = "check"
                /\ threads'[i] # Nil )
              => threads'[i].pc # "beep" ]_vars

\* C7: stop processed when neither slot is active returns success, an empty
\* stopped list and the message "No active commands to stop".
C7_StopNothingActive ==
    [][(StopStep /\ ~Get(running_commands, "alarm")
                 /\ ~Get(running_commands, "findme")) =>
          result' = [success |-> TRUE, stopped |-> << >>,
                     message |-> <<"No active commands to stop">>]]_vars

\* C8: stop lists every slot that was active when it was called, and when it
\* returns no slot is active.
C8_StopCancelsAll ==
    [][StopStep =>
          /\ \A k \in Kinds :
                Get(running_commands, k) => InSeq(k, result'.stopped)
          /\ \A k \in Kinds : ~Get(running_commands', k)
          /\ result'.success]_vars

C8_Witness ==
    /\ dpc = "update" /\ called = "cmd_stop"
    /\ InSeq("alarm", result.stopped) /\ InSeq("findme", result.stopped)
    /\ Running("alarm") # {} /\ Running("findme") # {}
    /\ \A k \in Kinds : ~Get(running_commands, k)

StopfindStep ==
    dpc = "handler" /\ HandlerOf(cmd_name) = "cmd_stopfind" /\ dpc' = "update"

\* C9: stopfind clears the findme flag, leaves the alarm flag and every alarm
\* thread as they were, ends no thread, and returns success, whether or not
\* findme was active.
C9_StopfindOnlyFindme ==
    [][StopfindStep =>
          /\ ~Get(running_commands', "findme")
          /\ ("alarm" \in DOMAIN running_commands')
                = ("alarm" \in DOMAIN running_commands)
          /\ Get(running_commands', "alarm") = Get(running_commands, "alarm")
          /\ \A i \in ThreadIds :
                /\ (threads'[i] = Nil) = (threads[i] = Nil)
                /\ (threads[i] # Nil /\ threads[i].kind = "alarm")
                      => threads'[i] = threads[i]
          /\ result'.success]_vars

C9_Witness ==
    /\ dpc = "update" /\ called = "cmd_stopfind"
    /\ Get(running_commands, "alarm") /\ Running("alarm") # {}
    /\ \E i \in Running("findme") : threads[i].cancelled
    /\ ~Get(running_commands, "findme")

----------------------------------------------------------------------------
(* Claims about listen(), checked under SpecListen.                        *)

\* C10: once establishing the push subscription has failed, every command
\* process_command handles was delivered by the poller, no INSERT event is
\* queued for or handled by the callback, and the switch has been logged
\* exactly once ("Falling back to polling mode..." once, followed by the
\* one "Using polling mode (fallback)..." of listen_polling); the fallback
\* line is not logged otherwise.  The main thread stays in listen_polling
\* until an interrupt ends the process.
C10_SetupFailureFallsBack ==
    /\ log.failed > 0 =>
          /\ log.failed = 1
          /\ log.fallback = 1
          /\ log.polling <= 1
          /\ mpc \in PollingPcs \ {"poll_enter"} => log.polling = 1
          /\ mpc \in PollingPcs \cup {"raised"}
          /\ push_queue = << >>
          /\ dpc # "idle" => via = "poll"
    /\ log.failed = 0 => log.fallback = 0

C10_Witness ==
    /\ log.failed = 1
    /\ dpc = "log" /\ via = "poll"
    /\ Len(writes) = 1 /\ writes[1].ok
    /\ store[cur.id].status = "completed"

\* C11: once the subscribed channel has dropped, the main thread eventually
\* leaves push mode: it is in listen_polling, or an interrupt ended listen().
C11_DropFallsBack ==
    (channel = "down") ~> (mpc \in PollingPcs \cup {"returned"})

\* C12: once the main thread is in listen_polling it never goes back to the
\* realtime path, and at any time at most one transport feeds
\* process_command: a command delivered by the callback is processed only
\* while the main thread is in listen_realtime, one delivered by a poll cycle
\* only while it is in listen_polling, and once polling has begun no INSERT
\* event is queued, the channel is not subscribed and nothing is processed
\* for the callback.
C12_ModeMonotone ==
    [][ /\ mpc \in PollingPcs => mpc' \in PollingPcs \cup {"raised"}
        /\ mpc = "raised" => mpc' = "raised"
        /\ via' = "push" => mpc' = "rt_live"
        /\ via' = "poll" => mpc' \in PollingPcs
        /\ log'.polling > 0 =>
              /\ mpc' \notin PushPcs
              /\ via' # "push"
              /\ push_queue' = << >>
              /\ channel' # "up" ]_vars

C12_Witness ==
    /\ log.unavailable = 1 /\ log.polling = 1
    /\ mpc = "poll_iter" /\ dpc = "update" /\ via = "poll"
    /\ \E i \in CmdIds : store[i] # Nil /\ store[i].status = "completed"

\* C13: process_pending_commands is called at most once, and exactly once
\* before the heartbeat and a transport are started; every command of the
\* callback or of a poll cycle is processed after that one call has returned.
C13_SweepOnceBeforeLive ==
    /\ log.sweeps <= 1
    /\ mpc \in {"start", "sweep_query"} => log.sweeps = 0
    /\ mpc \in {"sweep_iter", "hb_start", "select"} \cup PushPcs \cup PollingPcs
          => log.sweeps = 1
    /\ via = "sweep" => mpc = "sweep_iter"
    /\ via \in {"push", "poll"} =>
          /\ log.sweeps = 1
          /\ mpc \in {"rt_live"} \cup PollingPcs

C13_Witness ==
    /\ log.sweeps = 1
    /\ via = "push" /\ dpc = "handler"
    /\ \E i \in CmdIds : /\ i # cur.id
                         /\ store[i] # Nil
                         /\ store[i].device_id = Me
                         /\ store[i].status = "completed"

----------------------------------------------------------------------------
(* Claims about repeated processing.                                       *)

\* C14, checked under SpecSweep (process_pending_commands run twice, no
\* command inserted since the first run began): the second run executes no
\* handler and issues no completion write for a command the first run has
\* processed.
C14_SweepIdempotent ==
    (log.sweeps = 2 /\ dpc # "idle") => log.runs[cur.id] <= 1

\* The completion write of a record whose row is already completed.
DupStep ==
    /\ dpc = "update" /\ dpc' = "log"
    /\ store[cur.id] # Nil
    /\ store[cur.id].status = "completed"

\* The environment answered both runs alike: sd.stop() raised in both or in
\* neither, the location lookup of findme succeeded in both or in neither.
EnvAgrees(a, b) ==
    /\ ("stopped" \in DOMAIN a /\ "stopped" \in DOMAIN b) =>
          (InSeq("audio", a.stopped) <=> InSeq("audio", b.stopped))
    /\ ("location" \in DOMAIN a /\ "location" \in DOMAIN b) =>
          (a.location <=> b.location)

\* C15, checked under SpecDup: when a record is processed again after its row
\* was completed, the environment answering as it did the first time, the
\* accepted write leaves the row completed with the result it already held.
C15_DuplicateSameResult ==
    [][(DupStep /\ writes'[1].ok /\ EnvAgrees(store[cur.id].result, result)) =>
          /\ store'[cur.id].status = "completed"
          /\ store'[cur.id].result = store[cur.id].result]_vars

----------------------------------------------------------------------------
(* Claims about the heartbeat and the start and end of listen().           *)

C17_HeartbeatBeforeDispatch ==
    dpc # "idle" => hb # "off"

\* C18, checked under SpecHeartbeat: a liveness write that fails leads to the
\* sleep of the loop and not out of it, and after any number of failures in a
\* row the loop comes to its next write (unless self.running was cleared or
\* the process ended meanwhile).
C18_FailedWriteKeepsLoop ==
    /\ [][(hb = "write" /\ hb' \notin {"write", "killed"} /\ log'.beat = "failed")
             => (hb' = "sleep" /\ running' = running)]_vars
    /\ (hb = "sleep" /\ log.fails > 0) ~> (hb \in {"write", "done", "killed"})

C18_Witness ==
    /\ hb = "write"
    /\ log.fails = MaxFails
    /\ running

\* C19: without a device id nothing happens but the return of listen(): no
\* sweep, no command handed to process_command, no completion and no liveness
\* write, no heartbeat thread, no channel and no poll cycle; the rows of the
\* store stay as they were inserted.
C19_NoIdentityNoWork ==
    config.device_id = "none" =>
        /\ mpc \in {"start", "returned"}
        /\ ~running
        /\ hb = "off"
        /\ dpc = "idle" /\ via = "none" /\ writes = << >> /\ called = "None"
        /\ log = NoLog
        /\ channel = "none" /\ push_queue = << >> /\ batch = << >>
        /\ \A i \in CmdIds : store[i] # Nil => store[i].status = "pending"

C19_Witness ==
    /\ config.device_id = "none"
    /\ mpc = "returned"
    /\ \E i \in CmdIds : store[i] # Nil /\ store[i].status = "pending"

\* A step in which listen() ends.
ListenEnds == mpc # "start" /\ mpc' \in {"returned", "raised"} /\ mpc' # mpc

\* C20: an interrupt that arrives in push mode or in polling mode is handled
\* inside listen(): listen() returns, "Command listener stopped by user" is
\* logged and self.running is cleared.
C20_InterruptOrderly ==
    [][(ListenEnds /\ mpc \in PushPcs \cup PollingPcs) =>
          /\ mpc' = "returned"
          /\ ~running'
          /\ log'.stopped = log.stopped + 1]_vars

----------------------------------------------------------------------------
(* Claims about arguments and names, checked under SpecDispatch.           *)

JsonMapText == <<"{", "duration", ":", "1", "}">>
MalformedText == <<"{", "duration">>

\* C21: a record whose args are the JSON text of a map is handled with that
\* map (the alarm handler reports the duration the text names), one whose
\* args are a text that is not JSON is handled with the empty map (the alarm
\* handler reports its default duration); in both cases the resolved handler
\* is called, and a failure it reports is one of its own body, never one of
\* the parse.
C21_ArgsNormalized ==
    (dpc # "idle" /\ cur.args.t = "str"
                  /\ cur.args.s \in {JsonMapText, MalformedText}) =>
        /\ cur.args.s = JsonMapText => cmd_args = MapVal("duration" :> 1)
        /\ cur.args.s = MalformedText => cmd_args = MapVal(EmptyMap)
        /\ dpc \in {"update", "log"} =>
              /\ called = HandlerOf(Lower(cur.command))
              /\ fault # Nil => fault.msg \in EnvErrors
              /\ called = "cmd_alarm" =>
                    result = [success |-> TRUE, started |-> "alarm",
                              duration |-> IF cur.args.s = JsonMapText
                                           THEN 1 ELSE 10]

C21_Witness ==
    /\ dpc = "log"
    /\ cur.args = StrVal(MalformedText)
    /\ called = "cmd_alarm"
    /\ result.success /\ result.duration = 10
    /\ Len(writes) = 1

SameLetters(a, b) ==
    /\ Len(a) = Len(b)
    /\ \A n \in 1..Len(a) :
          \/ a[n] = b[n]
          \/ a[n] \in DOMAIN UpperToLower /\ UpperToLower[a[n]] = b[n]
          \/ b[n] \in DOMAIN UpperToLower /\ UpperToLower[b[n]] = a[n]

\* C29: a record whose name is, letter case aside, a registered name is
\* handled by the handler registered under that name (so names that differ
\* only in case get the same handler), and the unknown-command result is
\* given only to a name that is not a registered name in any letter case.
C29_CaseInsensitive ==
    dpc \in {"update", "log"} =>
        /\ \A n \in DOMAIN handlers :
              SameLetters(cur.command, n) => called = handlers[n]
        /\ (called = "None") <=>
              (\A n \in DOMAIN handlers : ~SameLetters(cur.command, n))
        /\ (called = "None") <=>
              (~result.success /\ result.error = <<"Unknown command: ">> \o cmd_name)

C29_Witness ==
    /\ dpc = "update"
    /\ cur.command = <<"S","t","o","p">>
    /\ called = "cmd_stop"
    /\ result.success

\* The name Python gives the type of the args value in process.
PyType ==
    ("null" :> "NoneType") @@ ("list" :> "list") @@ ("num" :> "int") @@
    ("text" :> "str")

NonMapHandled ==
    /\ called \in {"cmd_photo", "cmd_alarm"} =>
          /\ result = [success |-> FALSE,
                       error |-> <<"'", PyType[cmd_args.t],
                                   "' object has no attribute 'get'">>]
          /\ fault # Nil
    /\ called = "cmd_stop" => result.success /\ fault = Nil
    /\ called = "None" =>
          result = [success |-> FALSE,
                    error |-> <<"Unknown command: ">> \o cmd_name]
    /\ dpc = "log" =>
          /\ Len(writes) = 1
          /\ writes[1].id = cur.id
          /\ writes[1].status = "completed"
          /\ writes[1].result = result

\* C35 (as amended): for a record whose args are not a map after the
\* normalization (null, or a JSON text of a list, a number or a string), a
\* handler that reads its arguments reports {success: false, error: the
\* AttributeError text}, a handler that ignores them runs normally, an
\* unknown name gets the unknown-command result, nothing propagates out of
\* process_command, and exactly one completion write is issued for the
\* record.  Whether the row ends completed is up to the store accepting it.
C35_NonMapArgs ==
    (dpc \in {"update", "log"} /\ cmd_args.t \in DOMAIN PyType) => NonMapHandled

\* C35 as stated: ... and the record is not left pending.
C35_Orig_NotLeftPending ==
    (dpc = "log" /\ cmd_args.t \in DOMAIN PyType) =>
        /\ NonMapHandled
        /\ writes[1].ok

C35_Witness ==
    /\ dpc = "log"
    /\ cur.args = StrVal(<<"[", "1", "]">>)
    /\ cmd_args.t = "list"
    /\ called = "cmd_alarm"
    /\ ~result.success
    /\ writes[1].ok

----------------------------------------------------------------------------
(* Claims about the store, checked under SpecListen and SpecListenLive.    *)

WriteFailed == dpc = "update" /\ dpc' = "log" /\ ~writes'[1].ok

\* C22: a failure of the remote store ends nothing.  A completion write that
\* fails leaves the store, the rest of the batch and both loops as they were,
\* and the dispatcher goes on to the next command of the batch; from the
\* startup sweep, whatever its query and its writes did, listen() goes on to
\* start the heartbeat and enter a transport; and in polling mode every cycle,
\* whatever its query and its liveness write did, reaches its sleep and is
\* followed by the next query.  (The only other way out is the interrupt of
\* the main thread.)
C22_StoreFailureNotFatal ==
    /\ [][WriteFailed =>
            /\ store' = store
            /\ UNCHANGED <<mpc, batch, running, hb>>]_vars
    /\ (dpc = "log" /\ ~writes[1].ok /\ batch # << >>)
          ~> (dpc = "handler" \/ mpc \in {"raised", "returned"})
    /\ (mpc = "sweep_query")
          ~> ((hb # "off" /\ mpc \in PushPcs \cup PollingPcs) \/ mpc = "raised")
    /\ (mpc = "poll_query") ~> (mpc \in {"poll_sleep", "raised"})
    /\ (mpc = "poll_sleep") ~> (mpc \in {"poll_query", "raised"})

C22_Witness ==
    /\ mpc = "poll_query"
    /\ dpc = "idle"
    /\ log.beat = "failed"
    /\ log.polling = 1
    /\ \E i \in CmdIds :
          /\ store[i] # Nil
          /\ store[i].status = "pending"
          /\ log.runs[i] = MaxRuns

\* C23: within one delivery sequence the commands are processed one at a
\* time and in the order delivered.  A command is handed to process_command
\* only while no other is in process, it is the first of the sequence not yet
\* taken (of the sweep or poll result, or of the events of the channel), and
\* while it is in process (its handler, then its completion write) nothing
\* else is taken from either sequence; it leaves the dispatcher only after
\* its completion write was issued.
C23_SequentialInOrder ==
    [][/\ dpc' = "handler" /\ dpc # "handler" =>
            /\ dpc = "idle"
            /\ \/ /\ via' \in {"sweep", "poll"}
                  /\ batch # << >>
                  /\ cur' = batch[1]
                  /\ batch' = Tail(batch)
                  /\ push_queue' = push_queue
               \/ /\ via' = "push"
                  /\ push_queue # << >>
                  /\ cur' = push_queue[1]
                  /\ push_queue' = Tail(push_queue)
                  /\ batch' = batch
       /\ dpc # "idle" =>
            /\ dpc' # "idle" => cur' = cur
            /\ batch' = batch
            /\ Len(push_queue') >= Len(push_queue)
            /\ SubSeq(push_queue', 1, Len(push_queue)) = push_queue
            /\ (dpc' = "idle" => Len(writes) = 1)
      ]_vars

C23_Witness ==
    /\ dpc = "handler"
    /\ via = "poll"
    /\ batch = << >>
    /\ \E i \in CmdIds :
          /\ i # cur.id
          /\ store[i] # Nil
          /\ store[i].status = "completed"
          /\ store[i].result # Nil
          /\ log.runs[i] = 1
          /\ log.runs[cur.id] = 1

----------------------------------------------------------------------------
(* Claims about the background tasks, checked under Spec.                  *)

StartStep(h) ==
    dpc = "handler" /\ dpc' = "update" /\ called' = h /\ result'.success

----------------------------------------------------------------------------
(* Claims about the rows of the commands table, checked under SpecListen.  *)

Foreign(row) ==
    row # Nil /\ (row.device_id # config.device_id \/ row.status = "completed")

\* C25: on the sweep, the poll and the push path, the record in process is
\* addressed to this device and pending, in the record delivered and in the
\* store (until its own completion is written); a handler was never run for
\* a row of another device or a row that was completed when it was inserted,
\* and no step of the agent changes such a row or any completed row.
C25_OnlyOwnPending ==
    /\ [](dpc # "idle" =>
            /\ cur.device_id = config.device_id
            /\ cur.status = "pending"
            /\ store[cur.id].device_id = config.device_id
            /\ store[cur.id].result # PriorResult
            /\ \/ store[cur.id].status = "pending"
               \/ dpc = "log" /\ writes[1].ok)
    /\ [](\A i \in CmdIds :
            (store[i] # Nil /\ (store[i].device_id # config.device_id
                                \/ store[i].result = PriorResult))
               => log.runs[i] = 0)
    /\ [][\A i \in CmdIds : Foreign(store[i]) => store'[i] = store[i]]_vars

\* A poll result held the pending row of this device and not the row of the
\* other device inserted before it.
C25_Witness ==
    /\ dpc = "log"
    /\ via = "poll"
    /\ cur.id = MaxCmdId
    /\ \E i \in CmdIds :
          /\ i < cur.id
          /\ store[i] # Nil
          /\ store[i].device_id # config.device_id
          /\ store[i].status = "pending"
          /\ log.runs[i] = 0

\* C26: the only change the agent makes to a row is from pending to
\* completed: a row that exists is never removed, a completed row never
\* becomes pending again, and a row that changes was a pending row of this
\* device and is completed afterwards, with its device, name and args kept.
C26_PendingToCompletedOnly ==
    [][\A i \in CmdIds :
          store[i] # Nil =>
             /\ store'[i] # Nil
             /\ store[i].status = "completed" => store'[i].status = "completed"
             /\ store'[i] # store[i] =>
                   /\ store[i].status = "pending"
                   /\ store'[i].status = "completed"
                   /\ store'[i].result = result
                   /\ store'[i].device_id = store[i].device_id
                   /\ store'[i].command = store[i].command
                   /\ store'[i].args = store[i].args
      ]_vars

\* A row completed at the second attempt, after a completion write that
\* failed left it pending.
C26_Witness ==
    \E i \in CmdIds :
       /\ store[i] # Nil
       /\ store[i].status = "completed"
       /\ store[i].result \notin {Nil, PriorResult}
       /\ log.runs[i] > 1

----------------------------------------------------------------------------
(* Claims about restarted tasks, checked under SpecScript.                 *)

\* A loop of kind k that a stop or stopfind cancelled is still running, and
\* a newer loop of the kind has been started.
MidCancelRestart(k) ==
    \E i, j \in Running(k) :
       /\ i # j
       /\ threads[i].cancelled /\ threads[i].stale
       /\ ~threads[j].cancelled /\ ~threads[j].stale

AllExited(k) == Live(threads, k) = {} /\ ~Get(running_commands, k)

----------------------------------------------------------------------------
(* Claims about the caps, checked under SpecCaps.                          *)

ClaimedCap ==
    ("cmd_photo" :> 5) @@ ("cmd_audio" :> 120) @@
    ("cmd_alarm" :> 60) @@ ("cmd_findme" :> 300)

Requested ==
    IF called = "cmd_photo" THEN cur.args.m["count"] ELSE cur.args.m["duration"]

Used ==
    IF called \in {"cmd_photo", "cmd_audio"} THEN result.value
    ELSE result.duration

\* C28: the number of captures the photo handler goes for and the seconds
\* the audio handler records, the alarm loop and the findme loop are given
\* are the requested integer when it is at or below the cap of the handler
\* (5, 120, 60, 300) and the cap when it is above.
C28_CapsEnforced ==
    (dpc \in {"update", "log"} /\ called \in DOMAIN ClaimedCap
                               /\ result.success) =>
        /\ Used <= ClaimedCap[called]
        /\ Requested <= ClaimedCap[called] => Used = Requested
        /\ Requested > ClaimedCap[called] => Used = ClaimedCap[called]

C28_Witness ==
    /\ dpc = "update"
    /\ called = "cmd_findme"
    /\ result.success
    /\ Requested = 301
    /\ Used = 300

----------------------------------------------------------------------------
(* Claims about delivery, checked under SpecListenOk.                      *)

PendingMine(i) ==
    /\ running
    /\ store[i] # Nil
    /\ store[i].device_id = config.device_id
    /\ store[i].status = "pending"

Completed(i) == store[i] # Nil /\ store[i].status = "completed"

\* C30: while the agent runs and the store answers every request, a pending
\* row of this device is completed eventually, whenever it was inserted.
C30_EveryPendingCompleted ==
    \A i \in CmdIds : PendingMine(i) ~> Completed(i)

----------------------------------------------------------------------------
(* Claims about repeated execution, checked under SpecListen.              *)

\* The row i was completed by this agent.
CompletedHere(i) ==
    /\ Completed(i)
    /\ store[i].result \notin {Nil, PriorResult}

Started(i) == dpc = "idle" /\ dpc' = "handler" /\ cur'.id = i

\* C31: once the store holds status completed for a command, the agent does
\* not hand that command to process_command again, from the sweep, from the
\* channel or from any poll cycle: the only run in process for a completed
\* row is the one whose write completed it.
C31_NoRerunAfterCompletion ==
    /\ [](\A i \in CmdIds :
            (CompletedHere(i) /\ dpc # "idle" /\ cur.id = i) =>
               /\ dpc = "log"
               /\ writes[1].ok
               /\ store[i].result = result)
    /\ [][\A i \in CmdIds : Completed(i) => ~Started(i)]_vars

\* Both rows were processed once and completed, a poll cycle has run to its
\* liveness write, and the next cycle is about to query.
C31_Witness ==
    /\ mpc = "poll_query"
    /\ dpc = "idle"
    /\ log.polling = 1
    /\ log.beat = "ok"
    /\ \A i \in CmdIds : i <= 2 => CompletedHere(i) /\ log.runs[i] = 1

\* C32: no command is handed to process_command more than once in a process
\* run, whether or not its completion write succeeded.
C32_AtMostOnce ==
    \A i \in CmdIds : log.runs[i] <= 1

----------------------------------------------------------------------------
(* Claims about the slots at rest, checked under Spec.                     *)

----------------------------------------------------------------------------
(* Claims about termination, checked under SpecScript.                     *)

LeavesLoop(i) ==
    /\ threads[i] # Nil /\ threads[i].pc # "exit"
    /\ threads'[i] # Nil /\ threads'[i].pc = "exit"

AnyThread == \E i \in ThreadIds : threads[i] # Nil

====
